---- MODULE Spec2Model ----
(***************************************************************************)
(* The layer-isolated layout export script qgis/qgis_layout_export.py.     *)
(*                                                                         *)
(* The script is one linear procedure.  Its state is the host project's    *)
(* layer collection and layer-tree visibility flags, the output files, the *)
(* console, and the position of each run of the script in its code.        *)
(* Strings (layer names, paths) are sequences of characters; a run of      *)
(* characters with no path meaning is written as one element.              *)
(***************************************************************************)
EXTENDS Integers, Sequences, FiniteSets, TLC

\* Largest number of layers of a project.
MaxLayers == 3

\* Largest number of layers of a project two runs overlap on.
TwoRunLayers == 2

\* Largest number of host calls of a run that fail for a reason outside the
\* project (the disk, the permissions of the output folder).
MaxFaults == 3

\* The runs of the script: run 1 alone (Spec), or runs 1 and 2 overlapping
\* on the same project singleton (SpecTwo).
Runs == {1, 2}

\* layer.name() of the raster layers: two relative names and an absolute one.
LayerNames == { <<"a">>, <<"b">>, <<"/", "a">> }

\* layer.type(): QgsMapLayer.RasterLayer and two types that are not.
RasterLayer == "RasterLayer"
LayerTypes == { "RasterLayer", "VectorLayer", "MeshLayer" }

\* The layers a project can hold; the name of a non-raster layer is never read.
LayerValues ==
    [type : {RasterLayer}, name : LayerNames]
        \cup [type : LayerTypes \ {RasterLayer}, name : {<<"v">>}]

\* output_folder
OutputFolder == <<"desired_output_directory">>

\* The last line of the console.
Summary == <<"All styled images exported!">>

VARIABLES
    layers,       \* project.mapLayers().values(): the layers, in iteration order; a layer's id is its index
    nodes,        \* the ids root.findLayer finds a layer-tree node for
    visible,      \* the ids whose node has its visibility flag checked
    visible0,     \* the flags as they were before any run
    layout,       \* layout_manager.layoutByName(...): "layout", or "null" when no layout has the name
    files,        \* the images on disk: path -> what was rendered into it
    console,      \* the lines printed, in order
    exportCalls,  \* the calls of exporter.exportToImage, in order, each with the state it was made in
    pc,           \* each run's position in the script
    cur,          \* each run's index in raster_layers of the outer loop's raster_layer (0 before the loop)
    k,            \* each run's index of the inner loop in progress
    steps,        \* each run's host calls of the current iteration of the outer loop, in order
    foreign,      \* whether another run wrote a visibility flag since the run's current iteration began
    faults        \* how many more host calls may fail for a reason outside the project

vars == << layers, nodes, visible, visible0, layout, files, console, exportCalls,
           pc, cur, k, steps, foreign, faults >>

----------------------------------------------------------------------------
\* The pure parts of the script.

Ids == 1 .. Len(layers)

\* A filter that keeps every layer: the bug of a dropped condition.
IsAnyLayer(layer) == layer.type \in LayerTypes

IsRaster(layer) == layer.type = RasterLayer

\* A filter that keeps the vector layers alone: the bug of testing for
\* VectorLayer where the script tests for not RasterLayer.
IsVectorOnly(layer) == layer.type = "VectorLayer"

IsNotRaster(layer) == layer.type # RasterLayer

RECURSIVE RasterLayersFrom(_)
\* [layer for layer in ... if layer.type() == QgsMapLayer.RasterLayer], from
\* the i-th layer of the iteration on.
RasterLayersFrom(i) ==
    IF i > Len(layers) THEN << >>
    ELSE (IF IsRaster(layers[i]) THEN <<i>> ELSE << >>) \o RasterLayersFrom(i + 1)

RECURSIVE VectorLayersFrom(_)
\* [layer for layer in ... if layer.type() != QgsMapLayer.RasterLayer], from
\* the i-th layer of the iteration on.
VectorLayersFrom(i) ==
    IF i > Len(layers) THEN << >>
    ELSE (IF IsNotRaster(layers[i]) THEN <<i>> ELSE << >>) \o VectorLayersFrom(i + 1)

raster_layers == RasterLayersFrom(1)

vector_layers == VectorLayersFrom(1)

Range(s) == { s[i] : i \in 1 .. Len(s) }

\* posixpath.isabs
IsAbs(p) == Len(p) > 0 /\ p[1] = "/"

\* os.path.join(a, b): an absolute b discards a; a separator is added unless
\* a is empty or already ends with one.
PathJoin(a, b) ==
    IF IsAbs(b) THEN b
    ELSE IF a = << >> \/ a[Len(a)] = "/" THEN a \o b
    ELSE a \o <<"/">> \o b

\* out_path = os.path.join(output_folder, f"{raster_layer.name()}.png")
OutPath(name) == PathJoin(OutputFolder, name \o <<".png">>)

\* What exportToImage can do: return Success with the image written, return
\* an error code (the script discards the value it returns), or raise.
\* Without a layout there is nothing to render.
ExportResults ==
    IF layout = "null" THEN {"Error", "Raise"}
    ELSE {"Success"} \cup (IF faults > 0 THEN {"Error", "Raise"} ELSE {})

----------------------------------------------------------------------------
InitProject ==
    /\ layers \in UNION { [1 .. n -> LayerValues] : n \in 0 .. MaxLayers }
    /\ nodes \in { Ids \ {m} : m \in 0 .. Len(layers) }
    /\ visible \in SUBSET nodes
    /\ visible0 = visible
    /\ layout \in {"layout", "null"}
    /\ files = << >>
    /\ console = << >>
    /\ exportCalls = << >>
    /\ pc = [p \in Runs |-> "makedirs"]
    /\ cur = [p \in Runs |-> 0]
    /\ k = [p \in Runs |-> 0]
    /\ steps = [p \in Runs |-> << >>]
    /\ foreign = [p \in Runs |-> FALSE]

Init ==
    /\ InitProject
    /\ faults = MaxFaults

\* A write that unchecks whatever it is asked: the bug of a False left in a
\* copied line.
SetFlagsUnchecks(id, checked) == visible \ {id}

\* root.findLayer(id).setItemVisibilityChecked(checked): the flags after it.
SetFlags(id, checked) ==
    IF checked THEN visible \cup {id} ELSE visible \ {id}

\* The bookkeeping of a visibility write by run p.
NoteWrite(p, op, id) ==
    /\ steps' = [steps EXCEPT ![p] = Append(@, <<op, id>>)]
    /\ foreign' = [q \in Runs |-> IF q = p THEN foreign[q] ELSE TRUE]

\* os.makedirs(output_folder, exist_ok=True): returns, or raises OSError.
MakeDirs(p) ==
    /\ pc[p] = "makedirs"
    /\ \E ok \in (IF faults > 0 THEN BOOLEAN ELSE {TRUE}) :
         /\ pc' = [pc EXCEPT ![p] = IF ok THEN "for" ELSE "failed"]
         /\ faults' = IF ok THEN faults ELSE faults - 1
    /\ UNCHANGED << layers, nodes, visible, visible0, layout, files, console,
                    exportCalls, cur, k, steps, foreign >>

\* for raster_layer in raster_layers: the next raster layer, or the end of the loop.
ForRaster(p) ==
    /\ pc[p] = "for"
    /\ IF cur[p] < Len(raster_layers)
       THEN /\ cur' = [cur EXCEPT ![p] = @ + 1]
            /\ k' = [k EXCEPT ![p] = 1]
            /\ pc' = [pc EXCEPT ![p] = "hide"]
       ELSE /\ pc' = [pc EXCEPT ![p] = "summary"]
            /\ UNCHANGED << cur, k >>
    /\ steps' = [steps EXCEPT ![p] = << >>]
    /\ foreign' = [foreign EXCEPT ![p] = FALSE]
    /\ UNCHANGED << layers, nodes, visible, visible0, layout, files, console,
                    exportCalls, faults >>

\* for layer in raster_layers: root.findLayer(layer.id()).setItemVisibilityChecked(False)
\* One turn of the inner loop; findLayer returns None for a layer with no
\* node, and the method call on None raises.
HideRaster(p) ==
    /\ pc[p] = "hide"
    /\ LET id == raster_layers[k[p]] IN
       IF id \in nodes
       THEN /\ visible' = SetFlags(id, FALSE)
            /\ NoteWrite(p, "hide", id)
            /\ k' = [k EXCEPT ![p] = @ + 1]
            /\ pc' = [pc EXCEPT ![p] = IF k[p] < Len(raster_layers) THEN "hide" ELSE "show"]
       ELSE /\ pc' = [pc EXCEPT ![p] = "failed"]
            /\ UNCHANGED << visible, steps, foreign, k >>
    /\ UNCHANGED << layers, nodes, visible0, layout, files, console, exportCalls, cur, faults >>

\* The script with line 42 dropped: the current raster layer stays hidden.
ShowCurrentDropped(p) ==
    /\ pc[p] = "show"
    /\ k' = [k EXCEPT ![p] = 1]
    /\ pc' = [pc EXCEPT ![p] = IF vector_layers = << >> THEN "reload" ELSE "vector"]
    /\ UNCHANGED << layers, nodes, visible, visible0, layout, files, console,
                    exportCalls, cur, steps, foreign, faults >>

\* root.findLayer(raster_layer.id()).setItemVisibilityChecked(True)
ShowCurrent(p) ==
    /\ pc[p] = "show"
    /\ LET id == raster_layers[cur[p]] IN
       IF id \in nodes
       THEN /\ visible' = SetFlags(id, TRUE)
            /\ NoteWrite(p, "show", id)
            /\ k' = [k EXCEPT ![p] = 1]
            /\ pc' = [pc EXCEPT ![p] = IF vector_layers = << >> THEN "reload" ELSE "vector"]
       ELSE /\ pc' = [pc EXCEPT ![p] = "failed"]
            /\ UNCHANGED << visible, steps, foreign, k >>
    /\ UNCHANGED << layers, nodes, visible0, layout, files, console, exportCalls, cur, faults >>

\* for vector_layer in vector_layers: root.findLayer(vector_layer.id()).setItemVisibilityChecked(True)
ShowVector(p) ==
    /\ pc[p] = "vector"
    /\ LET id == vector_layers[k[p]] IN
       IF id \in nodes
       THEN /\ visible' = SetFlags(id, TRUE)
            /\ NoteWrite(p, "vector", id)
            /\ k' = [k EXCEPT ![p] = @ + 1]
            /\ pc' = [pc EXCEPT ![p] = IF k[p] < Len(vector_layers) THEN "vector" ELSE "reload"]
       ELSE /\ pc' = [pc EXCEPT ![p] = "failed"]
            /\ UNCHANGED << visible, steps, foreign, k >>
    /\ UNCHANGED << layers, nodes, visible0, layout, files, console, exportCalls, cur, faults >>

\* The script with line 49 dropped: no refresh before the export.
ReloadDropped(p) ==
    /\ pc[p] = "reload"
    /\ pc' = [pc EXCEPT ![p] = "export"]
    /\ UNCHANGED << layers, nodes, visible, visible0, layout, files, console,
                    exportCalls, cur, k, steps, foreign, faults >>

\* project.reloadAllLayers()
Reload(p) ==
    /\ pc[p] = "reload"
    /\ steps' = [steps EXCEPT ![p] = Append(@, <<"reload", 0>>)]
    /\ pc' = [pc EXCEPT ![p] = "export"]
    /\ UNCHANGED << layers, nodes, visible, visible0, layout, files, console,
                    exportCalls, cur, k, foreign, faults >>

\* The image an export writes: the layout rendered with the flags as they are.
Image(id) == [layer |-> id, shown |-> visible]

\* files with the image written at path, replacing what was there.
WriteFile(path, image) ==
    [q \in DOMAIN files \cup {path} |-> IF q = path THEN image ELSE files[q]]

\* exporter = QgsLayoutExporter(layout); out_path = ...;
\* exporter.exportToImage(out_path, QgsLayoutExporter.ImageExportSettings())
Export(p) ==
    /\ pc[p] = "export"
    /\ LET id == raster_layers[cur[p]]
           out_path == OutPath(layers[id].name)
       IN  \E result \in ExportResults :
             /\ exportCalls' = Append(exportCalls,
                    [run |-> p, layer |-> id, path |-> out_path, shown |-> visible,
                     steps |-> steps[p], foreign |-> foreign[p], result |-> result])
             /\ files' = IF result = "Success" THEN WriteFile(out_path, Image(id)) ELSE files
             /\ pc' = [pc EXCEPT ![p] = IF result = "Raise" THEN "failed" ELSE "print"]
             /\ faults' = IF layout # "null" /\ result # "Success" THEN faults - 1 ELSE faults
    /\ UNCHANGED << layers, nodes, visible, visible0, layout, console, cur, k,
                    steps, foreign >>

\* print(f"Saved: {out_path}")
PrintSaved(p) ==
    /\ pc[p] = "print"
    /\ console' = Append(console, <<"Saved: ">> \o OutPath(layers[raster_layers[cur[p]]].name))
    /\ pc' = [pc EXCEPT ![p] = "for"]
    /\ UNCHANGED << layers, nodes, visible, visible0, layout, files, exportCalls,
                    cur, k, steps, foreign, faults >>

\* print("All styled images exported!")
PrintSummary(p) ==
    /\ pc[p] = "summary"
    /\ console' = Append(console, Summary)
    /\ pc' = [pc EXCEPT ![p] = "done"]
    /\ UNCHANGED << layers, nodes, visible, visible0, layout, files, exportCalls,
                    cur, k, steps, foreign, faults >>

Step(p) ==
    \/ MakeDirs(p)
    \/ ForRaster(p)
    \/ HideRaster(p)
    \/ ShowCurrent(p)
    \/ ShowVector(p)
    \/ Reload(p)
    \/ Export(p)
    \/ PrintSaved(p)
    \/ PrintSummary(p)

\* One run of the script.
Next == Step(1)

Spec == Init /\ [][Next]_vars

\* Two runs overlapping on the same project, interleaved host call by host call.
NextTwo == \E p \in Runs : Step(p)

\* The projects two runs overlap on: raster and vector layers, the rasters of
\* one name, every layer in the layer tree and checked, a layout of the name,
\* and no host call failing.
InitTwo ==
    /\ InitProject
    /\ Len(layers) <= TwoRunLayers
    /\ \A i \in Ids : layers[i].type # "MeshLayer" /\ layers[i].name \in {<<"a">>, <<"v">>}
    /\ nodes = Ids
    /\ visible = Ids
    /\ layout = "layout"
    /\ faults = 0

SpecTwo == InitTwo /\ [][NextTwo]_vars

----------------------------------------------------------------------------
\* The vocabulary of the properties, read off the project and not off the script.

RasterIds == { i \in Ids : layers[i].type = RasterLayer }

NonRasterIds == Ids \ RasterIds

\* The raster layers' ids, in the project's iteration order.
RasterOrder == SelectSeq([i \in Ids |-> i], LAMBDA i : i \in RasterIds)

NonRasterOrder == SelectSeq([i \in Ids |-> i], LAMBDA i : i \in NonRasterIds)

\* The layers that are to be visible when raster layer id is exported.
Isolated(id) == {id} \cup NonRasterIds

\* <output_dir>/<name>.png
NamedPath(name) == OutputFolder \o <<"/">> \o name \o <<".png">>

Calls == 1 .. Len(exportCalls)

SavedLines == SelectSeq(console, LAMBDA line : line[1] = "Saved: ")

\* Run 1 reached the end of the script and every export returned Success.
FailureFree ==
    /\ pc[1] = "done"
    /\ \A c \in Calls : exportCalls[c].result = "Success"

\* Run 1 is inside an iteration of the outer loop.
InLoop == pc[1] \in {"hide", "show", "vector", "reload", "export", "print"}

\* C1: in one run, every export call for a raster layer R is made with exactly
\* R and the non-raster layers visible, and the flags are still so when the
\* iteration for R has finished, whatever the flags were before the run.
C1_VisibleSetAtExport ==
    /\ \A c \in Calls : exportCalls[c].shown = Isolated(exportCalls[c].layer)
    /\ (pc[1] \in {"export", "print"} \/ (pc[1] \in {"for", "summary", "done"} /\ cur[1] > 0))
          => visible = Isolated(RasterOrder[cur[1]])

\* C1 happens: a failure-free run over two rasters and a non-raster layer whose
\* flags were not the isolated set of any raster before.
C1_Witness ==
    /\ FailureFree
    /\ Cardinality(RasterIds) >= 2
    /\ NonRasterIds # {}
    /\ NonRasterIds \ visible0 # {}
    /\ RasterIds \subseteq visible0
    /\ Len(exportCalls) = Cardinality(RasterIds)

\* C2 as stated: a failure-free run makes exactly one export call per raster
\* layer, in iteration order, each to <output_dir>/<R.name>.png, and none for
\* another layer.
C2_OneExportPerRasterAtNamedPath ==
    FailureFree =>
        /\ Len(exportCalls) = Len(RasterOrder)
        /\ \A c \in Calls :
             /\ exportCalls[c].layer = RasterOrder[c]
             /\ exportCalls[c].path = NamedPath(layers[RasterOrder[c]].name)

\* C3 as stated: every non-raster layer's flag is checked in every state of
\* every iteration, whatever the flags were before the run (of a project
\* whose layers all have a flag).
C3_VectorsVisibleThroughoutLoop ==
    (nodes = Ids /\ InLoop) => NonRasterIds \subseteq visible

\* C2, where it holds: the calls of a failure-free run are one per raster
\* layer, in iteration order, each to the path os.path.join gives, which is
\* <output_dir>/<R.name>.png for a name that does not begin with "/".
C2_OneExportPerRasterAtJoinedPath ==
    FailureFree =>
        /\ Len(exportCalls) = Len(RasterOrder)
        /\ \A c \in Calls :
             LET name == layers[RasterOrder[c]].name IN
             /\ exportCalls[c].layer = RasterOrder[c]
             /\ exportCalls[c].path = (IF name[1] = "/" THEN name \o <<".png">>
                                       ELSE NamedPath(name))

\* C3 amended: no step of the run unchecks a non-raster layer's flag, and from
\* the end of the first iteration's show-vectors loop on (so at every export
\* call) every non-raster layer is visible.
C3_VectorsNeverHidden ==
    /\ [][\A v \in NonRasterIds : v \in visible => v \in visible']_vars
    /\ [](((pc[1] \in {"reload", "export", "print"})
            \/ (pc[1] \in {"for", "summary", "done"} /\ cur[1] > 0)
            \/ (InLoop /\ cur[1] > 1))
           => NonRasterIds \subseteq visible)

\* C3 happens: a run over two rasters ended with a non-raster layer visible
\* that was hidden before the run.
C3_Witness ==
    /\ pc[1] = "done"
    /\ Cardinality(RasterIds) >= 2
    /\ NonRasterIds \ visible0 # {}
    /\ NonRasterIds \subseteq visible

\* C4 as stated: after a failure-free run the number of image files written
\* equals the number of raster layers, for every set of raster layers.
C4_AsManyFilesAsRasters ==
    FailureFree => Cardinality(DOMAIN files) = Cardinality(RasterIds)

\* C5 as stated: when raster layers share a name, after a failure-free run a
\* file is at <output_dir>/<name>.png, it holds the export of the last of them
\* in iteration order, and an export call and a Saved line were issued for
\* that path for each of them.
C5_SharedNameOverwrites ==
    FailureFree =>
        \A i, j \in RasterIds :
            (i < j /\ layers[i].name = layers[j].name) =>
                LET path == NamedPath(layers[i].name)
                    same == { r \in RasterIds : layers[r].name = layers[i].name }
                    last == CHOOSE r \in same : \A q \in same : q <= r
                IN  /\ path \in DOMAIN files
                    /\ files[path] = [layer |-> last, shown |-> Isolated(last)]
                    /\ Cardinality({ c \in Calls : exportCalls[c].path = path }) = Cardinality(same)
                    /\ Cardinality({ n \in 1 .. Len(SavedLines) :
                                       SavedLines[n] = <<"Saved: ">> \o path }) = Cardinality(same)

\* C5, where it holds: the same of raster layers that share a name that does
\* not begin with "/".
C5_SharedRelativeNameOverwrites ==
    FailureFree =>
        \A i, j \in RasterIds :
            (i < j /\ layers[i].name = layers[j].name /\ layers[i].name[1] # "/") =>
                LET path == NamedPath(layers[i].name)
                    same == { r \in RasterIds : layers[r].name = layers[i].name }
                    last == CHOOSE r \in same : \A q \in same : q <= r
                IN  /\ path \in DOMAIN files
                    /\ files[path] = [layer |-> last, shown |-> Isolated(last)]
                    /\ Cardinality({ c \in Calls : exportCalls[c].path = path }) = Cardinality(same)
                    /\ Cardinality({ n \in 1 .. Len(SavedLines) :
                                       SavedLines[n] = <<"Saved: ">> \o path }) = Cardinality(same)

\* C6: with no raster layer there is never an export call, no flag ever differs
\* from what it was before the run, no Saved line is printed, and the console
\* of a finished run is the summary line alone.
C6_NoRasterNoExport ==
    RasterIds = {} =>
        /\ exportCalls = << >>
        /\ visible = visible0
        /\ files = << >>
        /\ console \in { << >>, <<Summary>> }
        /\ pc[1] = "done" => console = <<Summary>>

\* C6 happens: a run over a project of non-raster layers, one of them hidden,
\* reached the end.
C6_Witness ==
    /\ RasterIds = {}
    /\ Cardinality(NonRasterIds) >= 2
    /\ NonRasterIds \ visible0 # {}
    /\ pc[1] = "done"
    /\ console = <<Summary>>

\* C7 as stated: an export that fails ends the script there: it is the last
\* export call, the run has failed, no Saved line is printed for it, the
\* summary is never printed, and the Saved lines are those of the exports
\* that succeeded.
C7_FailedExportTerminates ==
    /\ \A c \in Calls :
          exportCalls[c].result # "Success" =>
              /\ c = Len(exportCalls)
              /\ pc[1] = "failed"
              /\ Len(SavedLines) = c - 1
              /\ Summary \notin Range(console)
    /\ \A n \in 1 .. Len(SavedLines) :
          /\ n <= Len(exportCalls)
          /\ exportCalls[n].result = "Success"
          /\ SavedLines[n] = <<"Saved: ">> \o exportCalls[n].path

\* C7, where it holds: an export that raises is the last export call, the
\* run has failed, no Saved line is printed for it and the summary is never
\* printed.
C7_RaisedExportTerminates ==
    \A c \in Calls :
        exportCalls[c].result = "Raise" =>
            /\ c = Len(exportCalls)
            /\ pc[1] = "failed"
            /\ Len(SavedLines) = c - 1
            /\ Summary \notin Range(console)

\* C8 as stated: with a null layout handle the run never prints the summary
\* line, however many raster layers the project has.
C8_NullLayoutIsFatal ==
    layout = "null" => (Summary \notin Range(console) /\ pc[1] # "done")

\* The host calls an iteration for raster layer id makes before its export.
StepsBeforeExport(id) ==
    [n \in 1 .. Len(RasterOrder) |-> <<"hide", RasterOrder[n]>>]
        \o << <<"show", id>> >>
        \o [n \in 1 .. Len(NonRasterOrder) |-> <<"vector", NonRasterOrder[n]>>]
        \o << <<"reload", 0>> >>

\* C9: every export call is preceded, in its iteration, by the hiding of every
\* raster layer, then the showing of the current one, then the showing of
\* every non-raster layer, then exactly one reload, with no flag written
\* between the reload and the export; its Saved line comes after it.
C9_StepOrder ==
    /\ \A c \in Calls : exportCalls[c].steps = StepsBeforeExport(exportCalls[c].layer)
    /\ Len(SavedLines) = (IF pc[1] \in {"print", "failed"} /\ exportCalls # << >>
                          THEN Len(exportCalls) - 1 ELSE Len(exportCalls))

\* C9 happens: a second export call was made in a project with a non-raster layer.
C9_Witness ==
    /\ Len(exportCalls) >= 2
    /\ NonRasterIds # {}
    /\ pc[1] = "done"

\* C10: when two runs overlap, an export call made with a visible set other
\* than the isolated one is made by a run in whose iteration the other run
\* wrote a flag; while the second run has not started, or has made no write in
\* the iteration, every export call sees the isolated set.
C10_OnlyARaceBreaksIsolation ==
    /\ \A c \in Calls :
          exportCalls[c].shown # Isolated(exportCalls[c].layer) => exportCalls[c].foreign
    /\ pc[2] = "makedirs" =>
          \A c \in Calls : exportCalls[c].shown = Isolated(exportCalls[c].layer)

\* C10 happens: with two raster layers, a run exports a raster layer while
\* another raster layer is visible, and a run exports one that is hidden.
C10_Witness ==
    /\ Cardinality(RasterIds) >= 2
    /\ \E c \in Calls :
          exportCalls[c].shown \cap RasterIds \notin { {exportCalls[c].layer}, {} }
    /\ \E c \in Calls : exportCalls[c].layer \notin exportCalls[c].shown

====
